---------------------------- MODULE Spec2Model ----------------------------
(***************************************************************************)
(* Slack translator bot: the channel preference store, the five slash      *)
(* commands, the message handler with its dedup gate and expiry timers,    *)
(* and the language service (detectLanguage, translateText,                *)
(* translateToAllLanguages).                                               *)
(*                                                                         *)
(* JavaScript strings that the code only compares or concatenates are TLA+ *)
(* strings; strings the code splits, trims or searches are sequences of    *)
(* one-character strings, turned into a TLA+ string by Join.               *)
(*                                                                         *)
(* The process is single-threaded: a handler runs without interruption     *)
(* from one await to the next, so every action below is one such run.      *)
(***************************************************************************)
EXTENDS Integers, Sequences, FiniteSets, TLC

VARIABLES
    channelPreferences,  \* Map channelId -> boolean          (utils.js:148)
    channelLanguages,    \* Map channelId -> array of codes   (utils.js:149)
    processedMessages,   \* Set of message ids                (app.js:40)
    timers,              \* pending setTimeout callbacks      (app.js:169)
    clock,               \* milliseconds since start
    env,                 \* process.env.SUPPORTED_LANGUAGES
    cmds,                \* slash-command handler invocations, in arrival order
    msgs,                \* message handler invocations, in arrival order
    call,                \* a stand-alone translateToAllLanguages call
    flagWrites,          \* history: per channel, the writes to its enabled flag
    apiCall              \* history: the last direct call of the store's API

vars == <<channelPreferences, channelLanguages, processedMessages, timers,
          clock, env, cmds, msgs, call, flagWrites, apiCall>>

(***************************************************************************)
(* Bounds of the model.                                                    *)
(***************************************************************************)
MaxCommands == 2   \* slash commands delivered
MaxEvents == 2     \* message events delivered
MaxTicks == 2      \* the clock stops after this many half windows
MaxTargets == 3    \* length of the target list of a stand-alone call

\* undefined / null where a string or an array is expected: a one-element
\* sequence that no string of characters and no array of codes equals
None == <<"undefined">>

Channels == {"C1", "C1-2"}
Timestamps == {"7", "2-7"}

(***************************************************************************)
(* String helpers (sequences of one-character strings).                    *)
(***************************************************************************)
RECURSIVE Join(_)
Join(s) == IF s = <<>> THEN "" ELSE Head(s) \o Join(Tail(s))

IsSpace(ch) == ch \in {" ", "\n", "\t"}

RECURSIVE TrimStart(_)
TrimStart(s) ==
    IF s # <<>> /\ IsSpace(Head(s)) THEN TrimStart(Tail(s)) ELSE s

RECURSIVE TrimEnd(_)
TrimEnd(s) ==
    IF s # <<>> /\ IsSpace(s[Len(s)]) THEN TrimEnd(SubSeq(s, 1, Len(s) - 1))
    ELSE s

\* String.prototype.trim
Trim(s) == TrimEnd(TrimStart(s))

\* String.prototype.split(','): the pieces between the commas, empty ones kept
RECURSIVE SplitFrom(_, _)
SplitFrom(s, cur) ==
    IF s = <<>> THEN <<cur>>
    ELSE IF Head(s) = "," THEN <<cur>> \o SplitFrom(Tail(s), <<>>)
    ELSE SplitFrom(Tail(s), Append(cur, Head(s)))

Split(s) == SplitFrom(s, <<>>)

Range(seq) == {seq[i] : i \in DOMAIN seq}

(***************************************************************************)
(* utils.js                                                                *)
(***************************************************************************)
\* .map(item => item.trim()).filter(Boolean), each piece joined to a string
ParseItems(pieces) ==
    LET trimmed == [i \in DOMAIN pieces |-> Join(Trim(pieces[i]))]
        NonEmpty(item) == item # ""
    IN  SelectSeq(trimmed, NonEmpty)

parseCommaSeparatedList_keepBlanks(value, defaultValue) ==
    IF value = None \/ value = <<>> THEN defaultValue
    ELSE [i \in DOMAIN Split(value) |-> Join(Trim(Split(value)[i]))]

parseCommaSeparatedList(value, defaultValue) ==
    IF value = None \/ value = <<>> THEN defaultValue
    ELSE ParseItems(Split(value))

(***************************************************************************)
(* channelPreferences.js (the revision app.js imports: it is the one that  *)
(* exports setChannelLanguages and getChannelLanguages).  A Map is a       *)
(* function whose domain is the set of keys written so far.                *)
(***************************************************************************)
MapSet(map, key, value) ==
    [k \in (DOMAIN map) \cup {key} |-> IF k = key THEN value ELSE map[k]]

\* channelPreferences.get(channelId) !== false
isTranslationEnabled_defaultOn(prefs, channelId) ==
    ~(channelId \in DOMAIN prefs /\ prefs[channelId] = FALSE)

\* channelPreferences.get(channelId) === true
isTranslationEnabled(prefs, channelId) ==
    channelId \in DOMAIN prefs /\ prefs[channelId] = TRUE

enableTranslation(prefs, channelId) == MapSet(prefs, channelId, TRUE)

disableTranslation_everyChannel(prefs, channelId) ==
    [k \in (DOMAIN prefs) \cup {channelId} |-> FALSE]

disableTranslation(prefs, channelId) == MapSet(prefs, channelId, FALSE)

toggleTranslation_noFlip(prefs, channelId) ==
    LET currentStatus == isTranslationEnabled(prefs, channelId)
    IN  [prefs |-> MapSet(prefs, channelId, currentStatus),
         ret |-> ~currentStatus]

toggleTranslation_returnsOld(prefs, channelId) ==
    LET currentStatus == isTranslationEnabled(prefs, channelId)
    IN  [prefs |-> MapSet(prefs, channelId, ~currentStatus),
         ret |-> currentStatus]

\* the new map and the returned new status
toggleTranslation(prefs, channelId) ==
    LET currentStatus == isTranslationEnabled(prefs, channelId)
    IN  [prefs |-> MapSet(prefs, channelId, ~currentStatus),
         ret |-> ~currentStatus]

setChannelLanguages(langs, channelId, languages) ==
    MapSet(langs, channelId, languages)

\* channelLanguages.get(channelId) || null: an array, even an empty one, is
\* truthy, so only a missing key gives null
getChannelLanguages(langs, channelId) ==
    IF channelId \in DOMAIN langs THEN langs[channelId] ELSE None

(***************************************************************************)
(* translator.js: the display names.                                       *)
(***************************************************************************)
languageNames ==
    [c \in {"en", "es", "fr", "de", "it", "ja", "ko", "zh", "ru", "pt", "ar",
            "uk", "pl"} |->
        CASE c = "en" -> "English"   [] c = "es" -> "Spanish"
          [] c = "fr" -> "French"    [] c = "de" -> "German"
          [] c = "it" -> "Italian"   [] c = "ja" -> "Japanese"
          [] c = "ko" -> "Korean"    [] c = "zh" -> "Chinese"
          [] c = "ru" -> "Russian"   [] c = "pt" -> "Portuguese"
          [] c = "ar" -> "Arabic"    [] c = "uk" -> "Ukrainian"
          [] c = "pl" -> "Polish"]

getLanguageName(langCode) ==
    IF langCode \in DOMAIN languageNames THEN languageNames[langCode]
    ELSE langCode

\* Object.keys(languageNames), in insertion order
AllLanguageCodes ==
    <<"en", "es", "fr", "de", "it", "ja", "ko", "zh", "ru", "pt", "ar", "uk",
      "pl">>

(***************************************************************************)
(* translator.js: the language service.  A generateContent call settles    *)
(* with a response text or rejects with an error.                          *)
(***************************************************************************)
Generated(text) == [ok |-> TRUE, text |-> text, message |-> ""]

Rejected(message) == [ok |-> FALSE, text |-> <<>>, message |-> message]

\* what the model may answer to the detection prompt: "en", "es", " ES\n",
\* "fr", "" ; and to a translation prompt: "Hola", " Hola\n", ""
DetectOutcomes ==
    {Generated(<<"e", "n">>), Generated(<<"e", "s">>),
     Generated(<<" ", "E", "S", "\n">>), Generated(<<"f", "r">>),
     Generated(<<>>), Rejected("quota exceeded")}

TranslateOutcomes ==
    {Generated(<<"H", "o", "l", "a">>), Generated(<<" ", "H", "o", "l", "a", "\n">>),
     Rejected("quota exceeded")}

\* String.prototype.toLowerCase on the letters the model uses
LowerChar(ch) ==
    CASE ch = "E" -> "e" [] ch = "S" -> "s" [] ch = "N" -> "n"
      [] ch = "F" -> "f" [] ch = "R" -> "r" [] OTHER -> ch

ToLowerCase(s) == [i \in DOMAIN s |-> LowerChar(s[i])]

translateText_rethrow(text, targetLang, outcome) ==
    IF outcome.ok
    THEN [threw |-> FALSE, value |-> Join(Trim(outcome.text))]
    ELSE [threw |-> TRUE, value |-> outcome.message]

\* translator.js:37-55: the value the returned promise settles with
translateText(text, targetLang, outcome) ==
    IF outcome.ok
    THEN [threw |-> FALSE, value |-> Join(Trim(outcome.text))]
    ELSE [threw |-> FALSE,
          value |-> "[Translation error: " \o outcome.message \o "]"]

\* translator.js:71-99
detectLanguage(text, outcome, supportedEnv) ==
    IF outcome.ok
    THEN LET languageCode == Join(ToLowerCase(Trim(outcome.text)))
             supportedLanguages == parseCommaSeparatedList(supportedEnv, <<"en">>)
         IN  IF languageCode \notin Range(supportedLanguages) THEN "en"
             ELSE languageCode
    ELSE "en"

\* An object's own string keys, in insertion order, each with its value.
ObjKeys(obj) == [i \in DOMAIN obj |-> obj[i][1]]

ObjHas(obj, key) == key \in Range(ObjKeys(obj))

ObjGet(obj, key) == obj[CHOOSE i \in DOMAIN obj : obj[i][1] = key][2]

ObjSet(obj, key, value) ==
    IF ObjHas(obj, key)
    THEN [i \in DOMAIN obj |-> IF obj[i][1] = key THEN <<key, value>> ELSE obj[i]]
    ELSE Append(obj, <<key, value>>)

FilterTargets_keepSource(targetLanguages, sourceLang) == targetLanguages

\* translator.js:117: targetLanguages.filter(lang => lang !== sourceLang)
FilterTargets(targetLanguages, sourceLang) ==
    LET NotSource(lang) == lang # sourceLang
    IN  SelectSeq(targetLanguages, NotSource)

(***************************************************************************)
(* translateToAllLanguages as the steps between its awaits.  pc: "idle"    *)
(* (not called), "detect" (awaiting detectLanguage), "translate" (awaiting *)
(* the translateText calls in `pending`), "returned".  pending and settled *)
(* hold indices into filteredLanguages; failed holds the indices whose     *)
(* generation call rejected.                                               *)
(***************************************************************************)
IdleCall ==
    [pc |-> "idle", text |-> "", languages |-> <<>>, sourceLang |-> "",
     filteredLanguages |-> <<>>, pending |-> {}, settled |-> {}, failed |-> {},
     translations |-> <<>>]

\* translator.js:107-113: up to the await of detectLanguage
StartCall(text, languages) ==
    [IdleCall EXCEPT !.pc = "detect", !.text = text,
                     !.languages = IF languages = None THEN AllLanguageCodes
                                   ELSE languages]

\* translator.js:113-123: detectLanguage settled; the loop starts its first
\* translateText, or there is nothing to translate and the call returns
CallDetected(c, outcome, supportedEnv) ==
    LET sourceLang == detectLanguage(c.text, outcome, supportedEnv)
        filteredLanguages == FilterTargets(c.languages, sourceLang)
    IN  [c EXCEPT !.sourceLang = sourceLang,
                  !.filteredLanguages = filteredLanguages,
                  !.pc = IF filteredLanguages = <<>> THEN "returned"
                         ELSE "translate",
                  !.pending = IF filteredLanguages = <<>> THEN {} ELSE {1}]

\* translator.js:121-130: the awaited translateText of index i settled; the
\* loop stores its value (a rejection is logged and skipped) and moves on
CallTranslated(c, i, outcome) ==
    LET lang == c.filteredLanguages[i]
        r == translateText(c.text, lang, outcome)
        last == i = Len(c.filteredLanguages)
    IN  [c EXCEPT !.translations = IF r.threw THEN @
                                   ELSE ObjSet(@, lang, r.value),
                  !.settled = @ \cup {i},
                  !.failed = IF outcome.ok THEN @ ELSE @ \cup {i},
                  !.pending = IF last THEN {} ELSE {i + 1},
                  !.pc = IF last THEN "returned" ELSE "translate"]

\* A translateToAllLanguages call outside the message handler.
CallDetectDone(outcome) ==
    /\ call.pc = "detect"
    /\ call' = CallDetected(call, outcome, env)
    /\ UNCHANGED <<channelPreferences, channelLanguages, processedMessages,
                   timers, clock, env, cmds, msgs, flagWrites, apiCall>>

CallTranslateDone(i, outcome) ==
    /\ call.pc = "translate"
    /\ i \in call.pending
    /\ call' = CallTranslated(call, i, outcome)
    /\ UNCHANGED <<channelPreferences, channelLanguages, processedMessages,
                   timers, clock, env, cmds, msgs, flagWrites, apiCall>>

(***************************************************************************)
(* app.js: the five slash commands.  A handler is                          *)
(*   await ack(); try { <store call>; await respond(..) }                  *)
(*                catch { logError; await respond(error) }                 *)
(* pc is the await the handler is suspended at: "ack", "respond" (the      *)
(* respond inside try), "errRespond" (the respond inside catch); "done"    *)
(* when the handler returned, "threw" when its promise rejected.           *)
(***************************************************************************)
CommandKinds ==
    {"/translate-on", "/translate-off", "/translate-toggle",
     "/translate-status", "/translate-languages"}

\* command.text of /translate-languages: "", " , ", "es,fr", "es, es"
CommandArgs ==
    {<<>>, <<" ", ",", " ">>, <<"e", "s", ",", "f", "r">>,
     <<"e", "s", ",", " ", "e", "s">>}

NoResponse == [msg |-> "none", response_type |-> "none", languages |-> <<>>]

Response(msg, type) == [msg |-> msg, response_type |-> type, languages |-> <<>>]

ErrorResponse == Response("error", "ephemeral")

NewCommand_respondsBeforeAck(kind, channel, text) ==
    [kind |-> kind, channel_id |-> channel, text |-> text, pc |-> "ack",
     sending |-> Response("enabled", "in_channel"), delivered |-> NoResponse,
     ret |-> "none"]

NewCommand(kind, channel, text) ==
    [kind |-> kind, channel_id |-> channel, text |-> text, pc |-> "ack",
     sending |-> NoResponse, delivered |-> NoResponse, ret |-> "none"]

RecordWrite(c, op, value) ==
    [flagWrites EXCEPT ![c] = Append(@, [op |-> op, value |-> value])]

\* The transport invokes the handler, which runs to its first await: ack().
CommandArrive(kind, channel, text) ==
    /\ Len(cmds) < MaxCommands
    /\ cmds' = Append(cmds, NewCommand(kind, channel, text))
    /\ UNCHANGED <<channelPreferences, channelLanguages, processedMessages,
                   timers, clock, env, msgs, call, flagWrites, apiCall>>

\* app.js:43-59
TranslateOn(h) ==
    LET c == cmds[h].channel_id IN
    /\ channelPreferences' = enableTranslation(channelPreferences, c)
    /\ flagWrites' = RecordWrite(c, "enable", TRUE)
    /\ cmds' = [cmds EXCEPT ![h].pc = "respond",
                            ![h].sending = Response("enabled", "in_channel")]
    /\ UNCHANGED channelLanguages

\* app.js:62-78
TranslateOff(h) ==
    LET c == cmds[h].channel_id IN
    /\ channelPreferences' = disableTranslation(channelPreferences, c)
    /\ flagWrites' = RecordWrite(c, "disable", FALSE)
    /\ cmds' = [cmds EXCEPT ![h].pc = "respond",
                            ![h].sending = Response("disabled", "in_channel")]
    /\ UNCHANGED channelLanguages

\* app.js:81-99
TranslateToggle(h) ==
    LET c == cmds[h].channel_id
        t == toggleTranslation(channelPreferences, c)
        newStatus == t.ret
    IN
    /\ channelPreferences' = t.prefs
    /\ flagWrites' = RecordWrite(c, "toggle", newStatus)
    /\ cmds' = [cmds EXCEPT
                  ![h].pc = "respond",
                  ![h].ret = IF newStatus THEN "true" ELSE "false",
                  ![h].sending = IF newStatus
                                 THEN Response("enabled", "in_channel")
                                 ELSE Response("disabled", "in_channel")]
    /\ UNCHANGED channelLanguages

\* app.js:102-120
TranslateStatus(h) ==
    LET status == isTranslationEnabled(channelPreferences, cmds[h].channel_id)
    IN
    /\ cmds' = [cmds EXCEPT
                  ![h].pc = "respond",
                  ![h].sending = IF status
                                 THEN Response("status enabled", "in_channel")
                                 ELSE Response("status disabled", "in_channel")]
    /\ UNCHANGED <<channelPreferences, channelLanguages, flagWrites>>

\* app.js:123-151
TranslateLanguages(h) ==
    LET languages == parseCommaSeparatedList(cmds[h].text, <<>>) IN
    IF Len(languages) = 0
    THEN /\ cmds' = [cmds EXCEPT
                       ![h].pc = "respond",
                       ![h].sending = Response("specify a language", "ephemeral")]
         /\ UNCHANGED <<channelPreferences, channelLanguages, flagWrites>>
    ELSE /\ channelLanguages' =
                setChannelLanguages(channelLanguages, cmds[h].channel_id, languages)
         /\ cmds' = [cmds EXCEPT
                       ![h].pc = "respond",
                       ![h].sending =
                           [msg |-> "languages set",
                            response_type |-> "in_channel",
                            languages |-> [i \in DOMAIN languages |->
                                             getLanguageName(languages[i])]]]
         /\ UNCHANGED <<channelPreferences, flagWrites>>

\* ack() settles.  It is awaited outside the try block: when it rejects, the
\* handler's promise rejects and nothing else of the handler runs.  When it
\* resolves the handler runs up to its respond() call.
AckDone(h, ok) ==
    /\ h \in DOMAIN cmds
    /\ cmds[h].pc = "ack"
    /\ IF ~ok
       THEN /\ cmds' = [cmds EXCEPT ![h].pc = "threw"]
            /\ UNCHANGED <<channelPreferences, channelLanguages, flagWrites>>
       ELSE CASE cmds[h].kind = "/translate-on" -> TranslateOn(h)
              [] cmds[h].kind = "/translate-off" -> TranslateOff(h)
              [] cmds[h].kind = "/translate-toggle" -> TranslateToggle(h)
              [] cmds[h].kind = "/translate-status" -> TranslateStatus(h)
              [] cmds[h].kind = "/translate-languages" -> TranslateLanguages(h)
    /\ UNCHANGED <<processedMessages, timers, clock, env, msgs, call, apiCall>>

\* The respond() inside try settles: the handler returns, or control passes
\* to the catch block, which calls respond() with the error text.
RespondDone(h, ok) ==
    /\ h \in DOMAIN cmds
    /\ cmds[h].pc = "respond"
    /\ cmds' = IF ok
               THEN [cmds EXCEPT ![h].pc = "done",
                                 ![h].delivered = cmds[h].sending]
               ELSE [cmds EXCEPT ![h].pc = "errRespond",
                                 ![h].sending = ErrorResponse]
    /\ UNCHANGED <<channelPreferences, channelLanguages, processedMessages,
                   timers, clock, env, msgs, call, flagWrites, apiCall>>

\* The respond() inside catch settles; a rejection leaves the handler.
ErrRespondDone(h, ok) ==
    /\ h \in DOMAIN cmds
    /\ cmds[h].pc = "errRespond"
    /\ cmds' = IF ok
               THEN [cmds EXCEPT ![h].pc = "done",
                                 ![h].delivered = cmds[h].sending]
               ELSE [cmds EXCEPT ![h].pc = "threw"]
    /\ UNCHANGED <<channelPreferences, channelLanguages, processedMessages,
                   timers, clock, env, msgs, call, flagWrites, apiCall>>

CommandNext ==
    \/ \E kind \in CommandKinds, channel \in Channels :
          \E text \in (IF kind = "/translate-languages" THEN CommandArgs
                       ELSE {<<>>}) :
             CommandArrive(kind, channel, text)
    \/ \E h \in 1..MaxCommands, ok \in BOOLEAN : AckDone(h, ok)
    \/ \E h \in 1..MaxCommands, ok \in BOOLEAN : RespondDone(h, ok)
    \/ \E h \in 1..MaxCommands, ok \in BOOLEAN : ErrRespondDone(h, ok)


(***************************************************************************)
(* app.js: the message handler, its dedup gate and the expiry timers.      *)
(***************************************************************************)
ExpiryWindow == 3600000

\* the model lets time pass in steps of half a window, stopping at a timer
TickMs == ExpiryWindow \div 2

MaxClock == MaxTicks * TickMs

Marker == <<"+", "t">>

IsPrefix(sub, s) == Len(sub) <= Len(s) /\ SubSeq(s, 1, Len(sub)) = sub

Includes_startsWith(s, sub) == IsPrefix(sub, s)

\* String.prototype.includes
RECURSIVE Includes(_, _)
Includes(s, sub) ==
    \/ IsPrefix(sub, s)
    \/ s # <<>> /\ Includes(Tail(s), sub)

\* String.prototype.replace(sub, ''): the first occurrence only
RECURSIVE RemoveFirst(_, _)
RemoveFirst(s, sub) ==
    IF IsPrefix(sub, s) THEN SubSeq(s, Len(sub) + 1, Len(s))
    ELSE IF s = <<>> THEN s
    ELSE <<Head(s)>> \o RemoveFirst(Tail(s), sub)

\* the id of the bot user that app.botId holds
AppBotId == "UBOT"

fromBot_botIdOnly(event) == event.bot_id # ""

\* app.js:157: event.bot_id || event.user === app.botId
fromBot(event) == event.bot_id # "" \/ event.user = AppBotId

\* app.js:162
MessageId(channel, ts) == channel \o "-" \o ts

alreadyProcessed_never(messageId) == FALSE

\* app.js:163
alreadyProcessed(messageId) == messageId \in processedMessages

\* app.js:171
ExpiryDelay == ExpiryWindow

RECURSIVE JoinWith(_, _)
JoinWith(parts, sep) ==
    IF parts = <<>> THEN ""
    ELSE IF Len(parts) = 1 THEN parts[1]
    ELSE parts[1] \o sep \o JoinWith(Tail(parts), sep)

formatTranslations_alwaysLabelled(translations, languages) ==
    LET Wanted(entry) == entry[1] \in Range(languages)
        filteredTranslations == SelectSeq(translations, Wanted)
    IN  JoinWith([i \in DOMAIN filteredTranslations |->
                    "*" \o getLanguageName(filteredTranslations[i][1])
                        \o "*: " \o filteredTranslations[i][2]],
                 "\n\n")

\* app.js:220-235
formatTranslations(translations, languages) ==
    LET Wanted(entry) == entry[1] \in Range(languages)
        filteredTranslations == SelectSeq(translations, Wanted)
    IN  IF Len(filteredTranslations) = 1 THEN filteredTranslations[1][2]
        ELSE JoinWith([i \in DOMAIN filteredTranslations |->
                         "*" \o getLanguageName(filteredTranslations[i][1])
                             \o "*: " \o filteredTranslations[i][2]],
                      "\n\n")

NoPost == [channel |-> "", text |-> "", thread_ts |-> ""]

\* A handler: the event, the time it was delivered, where it is ("detect",
\* "translate": inside translateToAllLanguages; "post": awaiting postMessage)
\* or how it ended ("skipBot", "skipDuplicate", "skipEmpty", "skipDisabled",
\* "posted", "failed": the catch block logged an error).
NewMessage(event, pc) ==
    [event |-> event, at |-> clock, pc |-> pc, textToTranslate |-> "",
     languagesToUse |-> <<>>, call |-> IdleCall, posting |-> NoPost]

IsBlank(text) == text = None \/ text = <<>> \/ Trim(text) = <<>>

NoTimerDue == \A t \in timers : clock < t.due

\* app.js:154-194: the event is delivered and the handler runs to its first
\* await, the generateContent call inside detectLanguage.  The event loop runs
\* the timers that are due before it takes the next event from the socket.
MessageArrive(event) ==
    LET messageId == MessageId(event.channel, event.ts)
        textToTranslate == Join(Trim(RemoveFirst(event.text, Marker)))
        channelLangs == getChannelLanguages(channelLanguages, event.channel)
        languagesToUse == IF channelLangs # None THEN channelLangs
                          ELSE parseCommaSeparatedList(env, <<"en">>)
    IN
    /\ Len(msgs) < MaxEvents
    /\ NoTimerDue
    /\ IF fromBot(event)
       THEN /\ msgs' = Append(msgs, NewMessage(event, "skipBot"))
            /\ UNCHANGED <<processedMessages, timers>>
       ELSE IF alreadyProcessed(messageId)
       THEN /\ msgs' = Append(msgs, NewMessage(event, "skipDuplicate"))
            /\ UNCHANGED <<processedMessages, timers>>
       ELSE /\ processedMessages' = processedMessages \cup {messageId}
            /\ timers' = timers \cup
                   {[messageId |-> messageId, due |-> clock + ExpiryDelay]}
            /\ msgs' = Append(msgs,
                 IF IsBlank(event.text) THEN NewMessage(event, "skipEmpty")
                 ELSE IF /\ ~Includes(event.text, Marker)
                         /\ ~isTranslationEnabled(channelPreferences,
                                                  event.channel)
                 THEN NewMessage(event, "skipDisabled")
                 ELSE [NewMessage(event, "detect") EXCEPT
                         !.textToTranslate = textToTranslate,
                         !.languagesToUse = languagesToUse,
                         !.call = StartCall(textToTranslate, languagesToUse)])
    /\ UNCHANGED <<channelPreferences, channelLanguages, clock, env, cmds,
                   call, flagWrites, apiCall>>

messageConfig_topLevel(event, formattedTranslations) ==
    [channel |-> event.channel, text |-> formattedTranslations,
     thread_ts |-> ""]

\* app.js:200-210: thread_ts is set only when the event has one; "" stands
\* for a property that is absent
messageConfig(event, formattedTranslations) ==
    [channel |-> event.channel, text |-> formattedTranslations,
     thread_ts |-> IF event.thread_ts # "" THEN event.thread_ts ELSE ""]

\* app.js:197-213: translateToAllLanguages returned; the handler formats the
\* result and calls postMessage
AfterTranslate(m) ==
    IF m.call.pc # "returned" THEN [m EXCEPT !.pc = m.call.pc]
    ELSE [m EXCEPT
            !.pc = "post",
            !.posting = messageConfig(m.event,
                            formatTranslations(m.call.translations,
                                               m.languagesToUse))]

\* the generateContent call of detectLanguage settles
DetectDone(h, outcome) ==
    /\ h \in DOMAIN msgs
    /\ msgs[h].pc = "detect"
    /\ msgs' = [msgs EXCEPT ![h] =
                  AfterTranslate([@ EXCEPT !.call = CallDetected(@, outcome, env)])]
    /\ UNCHANGED <<channelPreferences, channelLanguages, processedMessages,
                   timers, clock, env, cmds, call, flagWrites, apiCall>>

\* a generateContent call of translateText settles
TranslateDone(h, i, outcome) ==
    /\ h \in DOMAIN msgs
    /\ msgs[h].pc = "translate"
    /\ i \in msgs[h].call.pending
    /\ msgs' = [msgs EXCEPT ![h] =
                  AfterTranslate([@ EXCEPT !.call = CallTranslated(@, i, outcome)])]
    /\ UNCHANGED <<channelPreferences, channelLanguages, processedMessages,
                   timers, clock, env, cmds, call, flagWrites, apiCall>>

PostDone_uncaught(h, ok) ==
    /\ h \in DOMAIN msgs
    /\ msgs[h].pc = "post"
    /\ msgs' = [msgs EXCEPT ![h] =
                  [NewMessage(@.event, IF ok THEN "posted" ELSE "threw")
                      EXCEPT !.at = msgs[h].at]]
    /\ UNCHANGED <<channelPreferences, channelLanguages, processedMessages,
                   timers, clock, env, cmds, call, flagWrites, apiCall>>

\* client.chat.postMessage settles; a rejection is caught and logged.  The
\* handler returns and its locals are gone.
PostDone(h, ok) ==
    /\ h \in DOMAIN msgs
    /\ msgs[h].pc = "post"
    /\ msgs' = [msgs EXCEPT ![h] =
                  [NewMessage(@.event, IF ok THEN "posted" ELSE "failed")
                      EXCEPT !.at = msgs[h].at]]
    /\ UNCHANGED <<channelPreferences, channelLanguages, processedMessages,
                   timers, clock, env, cmds, call, flagWrites, apiCall>>

\* app.js:169-171: a timer that is due runs its callback
TimerFire(t) ==
    /\ t \in timers
    /\ t.due <= clock
    /\ processedMessages' = processedMessages \ {t.messageId}
    /\ timers' = timers \ {t}
    /\ UNCHANGED <<channelPreferences, channelLanguages, clock, env, cmds,
                   msgs, call, flagWrites, apiCall>>

Min(a, b) == IF a <= b THEN a ELSE b

EarliestDue ==
    IF timers = {} THEN MaxClock
    ELSE (CHOOSE t \in timers : \A u \in timers : t.due <= u.due).due

\* Time passes.  The event loop runs a timer's callback when it is due, so
\* time does not pass beyond a pending timer's due time.
Tick ==
    /\ clock < MaxClock
    /\ NoTimerDue
    /\ clock' = Min(Min(clock + TickMs, EarliestDue), MaxClock)
    /\ UNCHANGED <<channelPreferences, channelLanguages, processedMessages,
                   timers, env, cmds, msgs, call, flagWrites, apiCall>>


(***************************************************************************)
(* channelPreferences.js called directly, as a module.                     *)
(***************************************************************************)
NoApiCall ==
    [op |-> "none", channelId |-> "", arg |-> None, before |-> None,
     after |-> None, ret |-> "none"]

\* arrays a caller may pass to setChannelLanguages
ApiLanguageLists == {<<>>, <<"es">>, <<"es", "fr">>}

ApiEnable(c) ==
    /\ channelPreferences' = enableTranslation(channelPreferences, c)
    /\ apiCall' = [NoApiCall EXCEPT !.op = "enableTranslation", !.channelId = c]
    /\ UNCHANGED <<channelLanguages, processedMessages, timers, clock, env,
                   cmds, msgs, call, flagWrites>>

ApiDisable(c) ==
    /\ channelPreferences' = disableTranslation(channelPreferences, c)
    /\ apiCall' = [NoApiCall EXCEPT !.op = "disableTranslation", !.channelId = c]
    /\ UNCHANGED <<channelLanguages, processedMessages, timers, clock, env,
                   cmds, msgs, call, flagWrites>>

ApiToggle(c) ==
    LET t == toggleTranslation(channelPreferences, c) IN
    /\ channelPreferences' = t.prefs
    /\ apiCall' = [NoApiCall EXCEPT !.op = "toggleTranslation", !.channelId = c,
                                    !.ret = IF t.ret THEN "true" ELSE "false"]
    /\ UNCHANGED <<channelLanguages, processedMessages, timers, clock, env,
                   cmds, msgs, call, flagWrites>>

\* the status query: isTranslationEnabled(c)
ApiStatus(c) ==
    /\ apiCall' = [NoApiCall EXCEPT
                     !.op = "isTranslationEnabled", !.channelId = c,
                     !.ret = IF isTranslationEnabled(channelPreferences, c)
                             THEN "true" ELSE "false"]
    /\ UNCHANGED <<channelPreferences, channelLanguages, processedMessages,
                   timers, clock, env, cmds, msgs, call, flagWrites>>

\* setChannelLanguages returns normally whatever array it is given
ApiSetLanguages(c, languages) ==
    /\ channelLanguages' = setChannelLanguages(channelLanguages, c, languages)
    /\ apiCall' = [NoApiCall EXCEPT
                     !.op = "setChannelLanguages", !.channelId = c,
                     !.arg = languages,
                     !.before = getChannelLanguages(channelLanguages, c),
                     !.after = getChannelLanguages(channelLanguages', c)]
    /\ UNCHANGED <<channelPreferences, processedMessages, timers, clock, env,
                   cmds, msgs, call, flagWrites>>

(***************************************************************************)
(* Specifications.                                                         *)
(***************************************************************************)
\* process.env.SUPPORTED_LANGUAGES: unset, or "en,es"
SupportedLanguagesEnv == {None, <<"e", "n", ",", "e", "s">>}

\* the module state after start-up, but for the language overrides and the
\* environment
Loaded ==
    /\ channelPreferences = <<>>
    /\ processedMessages = {}
    /\ timers = {}
    /\ clock = 0
    /\ cmds = <<>>
    /\ msgs = <<>>
    /\ flagWrites = [c \in Channels |-> <<>>]
    /\ apiCall = NoApiCall

\* the process after start-up, but for the language overrides
Booted == Loaded /\ env \in SupportedLanguagesEnv

\* the process after start-up
Started == Booted /\ channelLanguages = <<>>

Init == Started /\ call = IdleCall

\* The command surface: users issue slash commands.
Next == CommandNext

Spec == Init /\ [][Next]_vars

\* The store module under arbitrary direct calls.
StoreNext ==
    \/ \E c \in Channels : ApiEnable(c)
    \/ \E c \in Channels : ApiDisable(c)
    \/ \E c \in Channels : ApiToggle(c)
    \/ \E c \in Channels, languages \in ApiLanguageLists :
          ApiSetLanguages(c, languages)

StoreSpec == Init /\ [][StoreNext]_vars

\* Message events "+t hi" from a user, for every channel and timestamp, with
\* time passing and the expiry timers running.
GateEvents ==
    {[channel |-> c, ts |-> ts, text |-> <<"+", "t", " ", "h", "i">>,
      bot_id |-> "", user |-> "U1", thread_ts |-> ""] :
        c \in Channels, ts \in Timestamps}

GateNext ==
    \/ \E event \in GateEvents : MessageArrive(event)
    \/ \E h \in 1..MaxEvents, outcome \in DetectOutcomes : DetectDone(h, outcome)
    \/ \E h \in DOMAIN msgs, outcome \in TranslateOutcomes :
          \E i \in msgs[h].call.pending : TranslateDone(h, i, outcome)
    \/ \E h \in 1..MaxEvents, ok \in BOOLEAN : PostDone(h, ok)
    \/ \E t \in timers : TimerFire(t)
    \/ Tick

GateSpec == Init /\ [][GateNext]_vars

\* One translateToAllLanguages(text, languages) call, for every target list
\* of at most MaxTargets codes and for no list at all (every known code).
TargetCodes == {"en", "es", "fr"}

TargetLists == UNION {[1..n -> TargetCodes] : n \in 0..MaxTargets}

TranslateInit ==
    /\ Started
    /\ \E languages \in TargetLists \cup {None} :
          call = StartCall("Hello", languages)

TranslateNext ==
    \/ \E outcome \in DetectOutcomes : CallDetectDone(outcome)
    \/ \E i \in call.pending, outcome \in TranslateOutcomes :
          CallTranslateDone(i, outcome)

TranslateSpec == TranslateInit /\ [][TranslateNext]_vars

\* The same call in a deployment whose SUPPORTED_LANGUAGES is unset, "",
\* "en,es" or "es,fr".
DetectEnv ==
    SupportedLanguagesEnv \cup {<<>>, <<"e", "s", ",", "f", "r">>}

DetectInit ==
    /\ Loaded
    /\ channelLanguages = <<>>
    /\ env \in DetectEnv
    /\ \E languages \in TargetLists \cup {None} :
          call = StartCall("Hello", languages)

DetectSpec == DetectInit /\ [][TranslateNext]_vars


\* Message events of every kind the handler tells apart: text with the
\* marker, without it, with two markers, the marker alone, blank, empty and
\* absent; in a thread and outside one; in either channel; from a user, from
\* a bot and from the bot user itself.  Meanwhile the flags are toggled.
Human(text, ts, thread_ts) ==
    [channel |-> "C1", ts |-> ts, text |-> text, bot_id |-> "", user |-> "U1",
     thread_ts |-> thread_ts]

MessageEvents ==
    {Human(<<"+", "t", " ", "h", "i">>, "7", ""),
     Human(<<"h", "i", " ", "+", "t">>, "2-7", "1.5"),
     Human(<<"h", "i">>, "7", ""),
     Human(<<"h", "i">>, "2-7", "1.5"),
     Human(<<"+", "t", " ", "a", " ", "+", "t">>, "7", ""),
     Human(<<"+", "t">>, "7", ""),
     Human(<<" ">>, "7", ""),
     Human(<<>>, "7", ""),
     Human(None, "7", ""),
     [Human(<<"+", "t", " ", "h", "i">>, "7", "1.5") EXCEPT !.channel = "C1-2"],
     [Human(<<"+", "t", " ", "h", "i">>, "7", "") EXCEPT !.bot_id = "B1",
                                                        !.user = "U2"],
     [Human(<<"+", "t", " ", "h", "i">>, "7", "") EXCEPT !.user = AppBotId]}

MessageNext ==
    \/ \E event \in MessageEvents : MessageArrive(event)
    \/ \E h \in 1..MaxEvents, outcome \in DetectOutcomes : DetectDone(h, outcome)
    \/ \E h \in DOMAIN msgs, outcome \in TranslateOutcomes :
          \E i \in msgs[h].call.pending : TranslateDone(h, i, outcome)
    \/ \E h \in 1..MaxEvents, ok \in BOOLEAN : PostDone(h, ok)
    \/ \E c \in Channels : ApiToggle(c)

MessageSpec == Init /\ [][MessageNext]_vars

\* The handling of one message "+t hi" in a channel whose language override
\* is any list of at most MaxTargets codes, known and unknown, or is not set.
FormatCodes == {"en", "es", "xx"}

FormatLists == UNION {[1..n -> FormatCodes] : n \in 1..MaxTargets}

FormatInit ==
    /\ Booted
    /\ call = IdleCall
    /\ channelLanguages \in
          {<<>>} \cup {setChannelLanguages(<<>>, "C1", languages) :
                          languages \in FormatLists}

FormatEvent == Human(<<"+", "t", " ", "h", "i">>, "7", "")

FormatNext ==
    \/ MessageArrive(FormatEvent)
    \/ \E h \in 1..MaxEvents, outcome \in DetectOutcomes : DetectDone(h, outcome)
    \/ \E h \in DOMAIN msgs, outcome \in TranslateOutcomes :
          \E i \in msgs[h].call.pending : TranslateDone(h, i, outcome)
    \/ \E h \in 1..MaxEvents, ok \in BOOLEAN : PostDone(h, ok)

FormatSpec == FormatInit /\ [][FormatNext]_vars

\* Every call of the store, on either channel, while one message "hi" of
\* channel C1 is delivered and handled.
FrameEvent == Human(<<"h", "i">>, "7", "")

FrameNext ==
    \/ StoreNext
    \/ \E c \in Channels : ApiStatus(c)
    \/ MessageArrive(FrameEvent)
    \/ \E h \in 1..MaxEvents, outcome \in DetectOutcomes : DetectDone(h, outcome)
    \/ \E h \in DOMAIN msgs, outcome \in TranslateOutcomes :
          \E i \in msgs[h].call.pending : TranslateDone(h, i, outcome)
    \/ \E h \in 1..MaxEvents, ok \in BOOLEAN : PostDone(h, ok)

FrameSpec == Init /\ [][FrameNext]_vars

(***************************************************************************)
(* The claims.                                                             *)
(***************************************************************************)
ToggleCommands(c) ==
    {h \in DOMAIN cmds : /\ cmds[h].kind = "/translate-toggle"
                         /\ cmds[h].channel_id = c}

\* the toggle handlers on c that have run toggleTranslation
ToggledBy(c) == {h \in ToggleCommands(c) : cmds[h].ret # "none"}

ToggleWrites(c) ==
    {i \in DOMAIN flagWrites[c] : flagWrites[c][i].op = "toggle"}

\* the flag a write found: the value of the write before it, false at first
FlagBefore(c, i) == IF i = 1 THEN FALSE ELSE flagWrites[c][i - 1].value

C2_NoLostToggle ==
    \A c \in Channels :
        LET w == flagWrites[c] IN
        /\ \A i \in ToggleWrites(c) : w[i].value = ~FlagBefore(c, i)
        /\ Cardinality(ToggleWrites(c)) = Cardinality(ToggledBy(c))
        /\ isTranslationEnabled(channelPreferences, c)
              = (w # <<>> /\ w[Len(w)].value)
        /\ ToggleWrites(c) = DOMAIN w =>
              /\ \A i \in DOMAIN w : w[i].value = (i % 2 = 1)
              /\ isTranslationEnabled(channelPreferences, c)
                    = (Cardinality(ToggledBy(c)) % 2 = 1)
              /\ Cardinality({h \in ToggledBy(c) : cmds[h].ret = "true"})
                    = (Len(w) + 1) \div 2

\* two toggles on one channel, both suspended at respond() at the same time
C2_Witness ==
    \E c \in Channels : \E h1, h2 \in ToggledBy(c) :
        /\ h1 # h2
        /\ cmds[h1].pc = "respond" /\ cmds[h2].pc = "respond"
        /\ cmds[h1].ret # cmds[h2].ret
        /\ ~isTranslationEnabled(channelPreferences, c)

SamePair(h1, h2) ==
    /\ msgs[h1].event.channel = msgs[h2].event.channel
    /\ msgs[h1].event.ts = msgs[h2].event.ts

\* the handler got past the dedup gate
PassedGate(h) == msgs[h].pc \notin {"skipBot", "skipDuplicate"}

\* the earlier deliveries of h's (channel, ts) that got past the gate
EarlierPasses(h) ==
    {g \in 1..(h - 1) : SamePair(g, h) /\ PassedGate(g)}

\* C3: of the deliveries of one (channel, ts), no two get past the dedup gate
\* less than an expiry window apart, whatever became of the first, so at
\* most one translation is posted for the message within the window.
C3_AtMostOncePerWindow ==
    \A h \in DOMAIN msgs :
        PassedGate(h) =>
            \A g \in EarlierPasses(h) :
                msgs[h].at - msgs[g].at >= ExpiryWindow

\* the first handling failed and a duplicate delivered in the window was
\* skipped
C3_Witness ==
    \E g, h \in DOMAIN msgs :
        /\ g < h /\ SamePair(g, h)
        /\ msgs[g].pc = "failed"
        /\ msgs[h].pc = "skipDuplicate"
        /\ msgs[h].at - msgs[g].at < ExpiryWindow

\* C4: the gate lets a (channel, ts) through the first time it is delivered,
\* rejects an immediate repeat, and lets it through again once an expiry
\* window has passed since it was last let through.
C4_FirstRepeatAgain ==
    \A h \in DOMAIN msgs :
        LET first == \A g \in 1..(h - 1) : ~SamePair(g, h)
            repeat == \E g \in EarlierPasses(h) : msgs[h].at = msgs[g].at
            expired == /\ EarlierPasses(h) # {}
                       /\ \A g \in EarlierPasses(h) :
                             msgs[h].at - msgs[g].at >= ExpiryWindow
        IN  /\ first => PassedGate(h)
            /\ repeat => ~PassedGate(h)
            /\ expired => PassedGate(h)

\* C5: the gate skips a delivery only if its (channel, ts) was let through
\* less than an expiry window before.
C5_NoFalsePositive ==
    \A h \in DOMAIN msgs :
        msgs[h].pc = "skipDuplicate" =>
            \E g \in EarlierPasses(h) :
                msgs[h].at - msgs[g].at < ExpiryWindow

AllIndices(c) == DOMAIN c.filteredLanguages

\* C6: while translateToAllLanguages waits for a translateText call and two
\* or more targets remain, the call of every remaining target has been
\* started; and it returns only when all of them have settled.
C6_ConcurrentDispatch ==
    /\ (call.pc = "translate" /\ Len(call.filteredLanguages) >= 2) =>
           call.pending \cup call.settled = AllIndices(call)
    /\ call.pc = "returned" => call.settled = AllIndices(call)

\* C7: the keys of the mapping translateToAllLanguages returns are exactly
\* the targets without the language detectLanguage returned.
C7_SourceNeverAKey ==
    call.pc = "returned" =>
        Range(ObjKeys(call.translations))
            = Range(call.languages) \ {call.sourceLang}

C7_Witness ==
    /\ call.pc = "returned"
    /\ call.sourceLang \in Range(call.languages)
    /\ Len(call.translations) >= 2

\* the last settled call for the language of index i
LastSettledFor(c, i) ==
    \A j \in c.settled :
        c.filteredLanguages[j] = c.filteredLanguages[i] => j <= i

\* C8: a rejected generation call never aborts the batch: every settled
\* target has an entry, the entry of a target whose call was rejected is the
\* sentinel "[Translation error: <reason>]", the call goes on with the next
\* target, and it returns with an entry for every remaining target.
C8_FailureIsolated ==
    /\ call.pc \in {"detect", "translate", "returned"}
    /\ call.pc = "translate" => call.pending # {}
    /\ \A i \in call.settled :
          /\ ObjHas(call.translations, call.filteredLanguages[i])
          /\ (i \in call.failed /\ LastSettledFor(call, i)) =>
                ObjGet(call.translations, call.filteredLanguages[i])
                    = "[Translation error: quota exceeded]"
    /\ call.pc = "returned" =>
          \A i \in AllIndices(call) :
              ObjHas(call.translations, call.filteredLanguages[i])

\* the first target's call was rejected, a later one succeeded
C8_Witness ==
    /\ call.pc = "returned"
    /\ 1 \in call.failed
    /\ \E i \in call.settled : i > 1 /\ i \notin call.failed
    /\ \E i \in AllIndices(call) :
          ObjGet(call.translations, call.filteredLanguages[i]) = "Hola"

\* every piece of the argument between commas is blank
EmptyAfterNormalization(text) ==
    \A i \in DOMAIN Split(text) : Trim(Split(text)[i]) = <<>>

RejectedLanguages(h) ==
    /\ cmds[h].kind = "/translate-languages"
    /\ EmptyAfterNormalization(cmds[h].text)

\* C9: a /translate-languages command whose argument is empty after
\* normalization never changes the stored language overrides in any of its
\* steps, and what it sends once acknowledged is the ephemeral error.
C9_EmptyListRejected ==
    [][\A h \in DOMAIN cmds :
          RejectedLanguages(h) =>
             /\ cmds'[h] # cmds[h] => channelLanguages' = channelLanguages
             /\ cmds'[h].pc \in {"respond", "errRespond", "done"} =>
                   cmds'[h].sending.response_type = "ephemeral"
             /\ (cmds[h].pc = "ack" /\ cmds'[h].pc = "respond") =>
                   cmds'[h].sending = Response("specify a language", "ephemeral")
             /\ (cmds[h].pc = "respond" /\ cmds'[h].pc = "done") =>
                   cmds'[h].delivered
                       = Response("specify a language", "ephemeral")]_vars

\* " , " was rejected on a channel that keeps the override it had
C9_Witness ==
    \E h \in DOMAIN cmds :
        /\ RejectedLanguages(h)
        /\ cmds[h].text # <<>>
        /\ cmds[h].pc = "done"
        /\ cmds[h].delivered = Response("specify a language", "ephemeral")
        /\ getChannelLanguages(channelLanguages, cmds[h].channel_id)
              = <<"es", "fr">>

\* C10: setChannelLanguages(c, []) leaves getChannelLanguages(c) as it was,
\* and no channel's override is ever the empty list.
C10_EmptyListNotStored ==
    /\ (apiCall.op = "setChannelLanguages" /\ apiCall.arg = <<>>) =>
           apiCall.after = apiCall.before
    /\ \A c \in DOMAIN channelLanguages : channelLanguages[c] # <<>>

NoDuplicates(seq) == \A i, j \in DOMAIN seq : seq[i] = seq[j] => i = j

\* C11: after any sequence of the five commands every stored language
\* override is non-empty and holds no language code twice.
C11_OverrideWellFormed ==
    \A c \in DOMAIN channelLanguages :
        /\ channelLanguages[c] # <<>>
        /\ NoDuplicates(channelLanguages[c])

\* "+" directly followed by "t" somewhere in the text
ContainsMarker(text) ==
    \E i \in 1..(Len(text) - 1) : text[i] = "+" /\ text[i + 1] = "t"

\* the handler called translateToAllLanguages
Translated(m) == m.pc \in {"detect", "translate", "post", "posted", "failed"}

\* the event is from a user, is no duplicate and has text that is not blank
Candidate(m) == m.pc \notin {"skipBot", "skipDuplicate", "skipEmpty"}

Delivered == Len(msgs') = Len(msgs) + 1

\* C12: a message from a user that is no duplicate and not blank is handed
\* to translateToAllLanguages exactly when its text contains "+t" or its
\* channel's flag is enabled at the moment it is handled; otherwise the
\* handler returns at once, and never posts.
C12_EligibleIffMarkerOrEnabled ==
    [][/\ Delivered =>
            LET m == msgs'[Len(msgs')]
                eligible ==
                    \/ ContainsMarker(m.event.text)
                    \/ isTranslationEnabled(channelPreferences, m.event.channel)
            IN  Candidate(m) =>
                    /\ Translated(m) <=> eligible
                    /\ eligible => m.pc = "detect"
                    /\ ~eligible => m.pc = "skipDisabled"
       /\ \A h \in DOMAIN msgs :
             /\ msgs[h].pc = "skipDisabled" => msgs'[h] = msgs[h]
             /\ msgs'[h].pc = "post" => Translated(msgs[h])]_vars

\* "+t hi" in a channel never enabled, SUPPORTED_LANGUAGES "en,es", source
\* "en": the post is the bare "Hola"; a "hi" in the same channel was dropped
C12_Witness ==
    \E g, h \in DOMAIN msgs :
        /\ apiCall.op = "none"
        /\ msgs[g].pc = "skipDisabled"
        /\ ~ContainsMarker(msgs[g].event.text)
        /\ msgs[h].event.text = <<"+", "t", " ", "h", "i">>
        /\ msgs[h].pc = "post"
        /\ msgs[h].call.sourceLang = "en"
        /\ msgs[h].languagesToUse = <<"en", "es">>
        /\ msgs[h].posting.text = "Hola"

\* the text with every "+t" taken out, left to right
RECURSIVE WithoutMarkers(_)
WithoutMarkers(s) ==
    IF Len(s) >= 2 /\ s[1] = "+" /\ s[2] = "t"
    THEN WithoutMarkers(SubSeq(s, 3, Len(s)))
    ELSE IF s = <<>> THEN s
    ELSE <<Head(s)>> \o WithoutMarkers(Tail(s))

InTranslation(h) == msgs[h].pc \in {"detect", "translate", "post"}

\* C13: the text handed to translateToAllLanguages is the inbound text with
\* the marker removed, then trimmed, and "+t" does not occur in it, also
\* when the inbound text holds the marker more than once.
C13_MarkerStripped ==
    \A h \in DOMAIN msgs :
        InTranslation(h) =>
            LET stripped == Trim(WithoutMarkers(msgs[h].event.text))
            IN  /\ ~ContainsMarker(stripped)
                /\ msgs[h].call.text = Join(stripped)
                /\ msgs[h].textToTranslate = Join(stripped)

\* the codes of a list, each once, in the order they first occur
RECURSIVE FirstOccurrences(_)
FirstOccurrences(seq) ==
    IF seq = <<>> THEN <<>>
    ELSE LET init == FirstOccurrences(SubSeq(seq, 1, Len(seq) - 1))
             last == seq[Len(seq)]
         IN  IF last \in Range(init) THEN init ELSE Append(init, last)

\* the targets that produced output, in the order of the target list
Produced(m) ==
    LET NotSource(lang) == lang # m.call.sourceLang
    IN  SelectSeq(FirstOccurrences(m.languagesToUse), NotSource)

DisplayName(lang) ==
    CASE lang = "en" -> "English" [] lang = "es" -> "Spanish" [] OTHER -> lang

RECURSIVE Labelled(_, _)
Labelled(targets, translations) ==
    LET entry == "*" \o DisplayName(Head(targets)) \o "*: "
                     \o ObjGet(translations, Head(targets))
    IN  IF Len(targets) = 1 THEN entry
        ELSE entry \o "\n\n" \o Labelled(Tail(targets), translations)

\* C14: the text the handler posts is the bare translation when exactly one
\* target produced output; when several did it is one "*<name>*: <text>"
\* entry per language, a blank line between entries, in the order of the
\* target list, an unknown code standing as its own name.
C14_FormatSingleOrLabelled ==
    \A h \in DOMAIN msgs :
        msgs[h].pc = "post" =>
            LET m == msgs[h]
                targets == Produced(m)
            IN  /\ Len(targets) = 1 =>
                      m.posting.text = ObjGet(m.call.translations, targets[1])
                /\ Len(targets) >= 2 =>
                      m.posting.text = Labelled(targets, m.call.translations)

\* override ["es", "en", "xx", ...], source "en": a Spanish entry, then the
\* entry of the unknown code whose call was rejected
C14_Witness ==
    \E h \in DOMAIN msgs :
        /\ msgs[h].pc = "post"
        /\ Len(msgs[h].languagesToUse) >= 3
        /\ SubSeq(msgs[h].languagesToUse, 1, 3) = <<"es", "en", "xx">>
        /\ msgs[h].posting.text
              = "*Spanish*: Hola\n\n*xx*: [Translation error: quota exceeded]"

InThread(event) == event.thread_ts # ""

\* C15: the message a handler posts goes to the channel of its event, with
\* the event's thread id when the event has one and with none when it has
\* none; a handler that is not posting has built no message.
C15_PostInChannelAndThread ==
    \A h \in DOMAIN msgs :
        LET event == msgs[h].event
            post == msgs[h].posting
        IN  /\ msgs[h].pc = "post" =>
                  /\ post.channel = event.channel
                  /\ InThread(event) => post.thread_ts = event.thread_ts
                  /\ ~InThread(event) => post.thread_ts = ""
            /\ msgs[h].pc # "post" => post = NoPost

\* a reply into thread "1.5" of one channel and a top-level post in the
\* other channel, both on their way
C15_Witness ==
    \E g, h \in DOMAIN msgs :
        /\ msgs[g].pc = "post" /\ msgs[h].pc = "post"
        /\ msgs[g].posting.channel = "C1-2"
        /\ msgs[g].posting.thread_ts = "1.5"
        /\ msgs[h].posting.channel = "C1"
        /\ msgs[h].posting.thread_ts = ""
        /\ msgs[h].posting.text = "Hola"

\* where a handler whose promise resolves can be
ResolvingPcs ==
    {"skipBot", "skipDuplicate", "skipEmpty", "skipDisabled", "detect",
     "translate", "post", "posted", "failed"}

\* C16: a handler never ends with an error leaving it: when its postMessage
\* fails it ends as "failed", with nothing posted, having changed nothing
\* but its own record, and it stays so; the other handlers and the shared
\* state are untouched, so later events are handled as before.
C16_FailureCaught ==
    [][\A h \in DOMAIN msgs :
          /\ msgs'[h].pc \in ResolvingPcs
          /\ msgs[h].pc = "failed" => msgs'[h] = msgs[h]
          /\ (msgs[h].pc = "post" /\ msgs'[h].pc # "post") =>
                /\ msgs'[h].pc \in {"posted", "failed"}
                /\ msgs'[h].posting = NoPost
                /\ \A g \in DOMAIN msgs' : g # h => msgs'[g] = msgs[g]
                /\ UNCHANGED <<channelPreferences, channelLanguages,
                               processedMessages, timers>>]_vars

\* the post of one message failed; a message delivered after it was
\* translated and posted
C16_Witness ==
    \E g, h \in DOMAIN msgs :
        /\ g < h
        /\ msgs[g].pc = "failed"
        /\ msgs[h].pc = "posted"

\* C17: whichever of ack(), the store call, the confirming respond() or the
\* error respond() fails, the promise of a command handler never rejects.
C17_NoFailureEscapes ==
    \A h \in DOMAIN cmds : cmds[h].pc # "threw"

StoreChanged ==
    \/ channelPreferences' # channelPreferences
    \/ channelLanguages' # channelLanguages
    \/ flagWrites' # flagWrites

Unanswered(cmd) == cmd.sending = NoResponse /\ cmd.delivered = NoResponse

\* C18: in every command handler the acknowledgment completes before the
\* store is read or written and the store call is made before any response
\* is sent: a handler awaiting ack() has sent nothing, the store changes only
\* in the step in which an ack() resolves, before that handler's response is
\* delivered, the steps that send a response leave the store alone, and a
\* handler whose ack() failed never touches the store nor sends anything.
C18_AckThenStoreThenRespond ==
    [][/\ \A h \in DOMAIN cmds' :
             cmds'[h].pc = "ack" => Unanswered(cmds'[h])
       /\ StoreChanged =>
             \E h \in DOMAIN cmds :
                 /\ cmds[h].pc = "ack" /\ cmds'[h].pc = "respond"
                 /\ Unanswered(cmds[h])
                 /\ cmds'[h].delivered = NoResponse
       /\ \A h \in DOMAIN cmds :
             /\ (cmds[h].pc = "ack" /\ cmds'[h].pc = "threw") =>
                   Unanswered(cmds'[h]) /\ ~StoreChanged
             /\ (cmds[h].pc = "threw" /\ Unanswered(cmds[h])) =>
                   cmds'[h] = cmds[h]
             /\ cmds'[h].delivered # cmds[h].delivered =>
                   /\ cmds[h].pc \in {"respond", "errRespond"}
                   /\ ~StoreChanged]_vars

\* /translate-on has written the flag and its response is still on its way;
\* another command's ack() failed and it did nothing
C18_Witness ==
    \E g, h \in DOMAIN cmds :
        /\ cmds[g].kind = "/translate-on"
        /\ cmds[g].pc = "respond"
        /\ cmds[g].delivered = NoResponse
        /\ isTranslationEnabled(channelPreferences, cmds[g].channel_id)
        /\ cmds[h].kind = "/translate-languages"
        /\ cmds[h].text = <<"e", "s", ",", "f", "r">>
        /\ cmds[h].pc = "threw"
        /\ Unanswered(cmds[h])
        /\ channelLanguages = <<>>

\* the step is a call toggleTranslation(c)
ToggleCall(c) ==
    apiCall'.op = "toggleTranslation" /\ apiCall'.channelId = c

\* the call before this step was toggleTranslation(c)
ToggledJustBefore(c) ==
    apiCall.op = "toggleTranslation" /\ apiCall.channelId = c

\* C19: toggleTranslation(c) returns the new value of c's flag, which is
\* what isTranslationEnabled(c) reports right after it, and it is the
\* negation of what it reported before; a second toggleTranslation(c) with
\* no other write in between puts the flag back to what it was before the
\* first, for a channel never written as for any other.
C19_ToggleTwiceRestores ==
    [][\A c \in Channels :
          ToggleCall(c) =>
             LET before == isTranslationEnabled(channelPreferences, c)
                 after == isTranslationEnabled(channelPreferences', c)
                 returned == apiCall'.ret = "true"
                 again == toggleTranslation(channelPreferences', c)
             IN  /\ returned = after
                 /\ after = ~before
                 /\ c \notin DOMAIN channelPreferences => returned
                 /\ isTranslationEnabled(again.prefs, c) = before
                 /\ again.ret = before
                 /\ ToggledJustBefore(c) =>
                       /\ after = ~(apiCall.ret = "true")
                       /\ returned = ~(apiCall.ret = "true")]_vars

\* the last call toggled a channel back to disabled, returning false, and
\* no other channel has been written
C19_Witness ==
    \E c \in Channels :
        /\ apiCall.op = "toggleTranslation"
        /\ apiCall.channelId = c
        /\ apiCall.ret = "false"
        /\ DOMAIN channelPreferences = {c}
        /\ ~isTranslationEnabled(channelPreferences, c)

NeverWritten(c) == c \notin DOMAIN channelPreferences

\* C20: translations are enabled by default: a message from a user, not a
\* duplicate and not blank, without "+t", in a channel whose flag no
\* enable, disable or toggle has ever written, is translated.
C20_DefaultEnabled ==
    \A h \in DOMAIN msgs :
        LET m == msgs[h] IN
        (/\ Candidate(m)
         /\ ~ContainsMarker(m.event.text)
         /\ NeverWritten(m.event.channel)) => Translated(m)

\* the event carries a bot_id, or its user is the bot user
SentByBot(event) == event.bot_id # "" \/ event.user = "UBOT"

\* C21: an event sent by a bot is dropped before the dedup gate: its
\* handler adds no key to processedMessages, sets no timer, calls neither
\* translateToAllLanguages nor postMessage, and never does anything later.
C21_BotEventsDiscarded ==
    [][/\ Delivered =>
            LET m == msgs'[Len(msgs')] IN
            SentByBot(m.event) =>
                /\ m.pc = "skipBot"
                /\ m.call = IdleCall
                /\ m.posting = NoPost
                /\ processedMessages' = processedMessages
                /\ timers' = timers
       /\ \A h \in DOMAIN msgs :
             SentByBot(msgs[h].event) => msgs'[h] = msgs[h]]_vars

\* both kinds of bot event were dropped and no key was stored for them
C21_Witness ==
    \E g, h \in DOMAIN msgs :
        /\ msgs[g].event.bot_id = "B1"
        /\ msgs[h].event.user = "UBOT" /\ msgs[h].event.bot_id = ""
        /\ msgs[g].pc = "skipBot" /\ msgs[h].pc = "skipBot"
        /\ processedMessages = {}

\* the codes SUPPORTED_LANGUAGES names; ["en"] when it is unset or empty
SupportedSet ==
    CASE env = <<"e", "n", ",", "e", "s">> -> {"en", "es"}
      [] env = <<"e", "s", ",", "f", "r">> -> {"es", "fr"}
      [] OTHER -> {"en"}

\* C22: whatever the generation call answers, and when it fails, the code
\* detectLanguage returns is one of the supported languages.
C22_DetectedInSupportedSet ==
    call.pc \in {"translate", "returned"} => call.sourceLang \in SupportedSet

\* C23: the text of every post is non-empty and holds at least one
\* translation; when no target is left once the source language is removed
\* the handler posts nothing.
C23_PostedTextNonEmpty ==
    \A h \in DOMAIN msgs :
        /\ msgs[h].pc = "post" =>
              /\ msgs[h].posting.text # ""
              /\ msgs[h].call.translations # <<>>
        /\ (msgs[h].call.pc = "returned"
              /\ msgs[h].call.filteredLanguages = <<>>) => msgs[h].pc # "post"

\* C24: translateToAllLanguages, and through it the generation call, is
\* never given a text that is empty or only white space, also when the
\* inbound text is nothing but the marker.  The text handed over has been
\* trimmed, so it is blank exactly when it is "".
C24_NeverTranslatesBlank ==
    \A h \in DOMAIN msgs :
        InTranslation(h) =>
            /\ msgs[h].call.text # ""
            /\ msgs[h].textToTranslate = msgs[h].call.text

\* what the store holds for a channel: nothing, or the value
FlagOf(prefs, d) == IF d \in DOMAIN prefs THEN <<prefs[d]>> ELSE <<>>

OverrideOf(langs, d) == IF d \in DOMAIN langs THEN <<langs[d]>> ELSE <<>>

StoreUnchanged ==
    channelPreferences' = channelPreferences
        /\ channelLanguages' = channelLanguages

\* C25: a channel's enabled flag changes only in an enable, disable or
\* toggle call on that channel, which leaves every override alone; its
\* language override changes only in a set-languages call on that channel,
\* which leaves every flag alone; the status query and the steps of message
\* handling change neither.
C25_PerChannelFrame ==
    [][/\ \A d \in Channels :
             /\ FlagOf(channelPreferences', d) # FlagOf(channelPreferences, d) =>
                   /\ apiCall'.op \in {"enableTranslation",
                                       "disableTranslation",
                                       "toggleTranslation"}
                   /\ apiCall'.channelId = d
                   /\ channelLanguages' = channelLanguages
                   /\ msgs' = msgs
             /\ OverrideOf(channelLanguages', d)
                    # OverrideOf(channelLanguages, d) =>
                   /\ apiCall'.op = "setChannelLanguages"
                   /\ apiCall'.channelId = d
                   /\ channelPreferences' = channelPreferences
                   /\ msgs' = msgs
       /\ msgs' # msgs => StoreUnchanged
       /\ (apiCall' # apiCall /\ apiCall'.op = "isTranslationEnabled") =>
             StoreUnchanged]_vars

\* the two channels hold different flags and overrides, a status query has
\* just been answered and a message of C1 is about to be posted
C25_Witness ==
    /\ FlagOf(channelPreferences, "C1") = <<TRUE>>
    /\ FlagOf(channelPreferences, "C1-2") = <<FALSE>>
    /\ OverrideOf(channelLanguages, "C1") = <<>>
    /\ OverrideOf(channelLanguages, "C1-2") = << <<"es", "fr">> >>
    /\ apiCall.op = "isTranslationEnabled"
    /\ apiCall.channelId = "C1-2" /\ apiCall.ret = "false"
    /\ \E h \in DOMAIN msgs : msgs[h].pc = "post"

=============================================================================
